---- MODULE Spec2Model ----
(***************************************************************************)
(* A model of mmcmap: a persistent copy-on-write byte-prefix trie kept in  *)
(* a memory mapped file.  The mapped file is modelled node by node: `mem`  *)
(* maps the start offset of every serialised node to its decoded fields,   *)
(* `meta` is the 24 byte header {version, root offset, end offset}.        *)
(* Offsets are the real byte offsets (node sizes come from the layout      *)
(* constants); the byte encoding of the individual fields is not modelled. *)
(***************************************************************************)
EXTENDS Integers, Sequences, FiniteSets, TLC

\* ------------------------------------------------------------------ bounds

\* longest key the operations are called with
MaxKeyLen == 2
\* number of Put/Delete calls of a sequential run
MaxOps == 3
\* number of Put/Delete calls of each writer of a concurrent run
MaxWriterOps == 2
\* length of the one longer key the operations are also called with
MaxDepth == 3
\* size of the first mapping (64MB in the program, scaled so that growth happens)
InitMapSize == 256
\* limit up to which the mapping doubles (1GB in the program, scaled alike)
MaxResize == 512

\* ------------------------------------------------------------------ layout

InitRootOffset == 24
NodeChildrenIdx == 64
NodeKeyIdx == 26
NodeChildPtrSize == 8

\* the byte values keys are made of, and the values stored
Byte == {1, 2}
Values == {<<1>>, <<2>>}

KeysOfLen(n) == [1..n -> Byte]
\* a key that reaches one level deeper than the others
DeepKey == [i \in 1..MaxDepth |-> 1]
Keys == UNION {KeysOfLen(n) : n \in 0..MaxKeyLen} \cup {DeepKey}
NonEmptyKeys == Keys \ {<<>>}

\* bytewise comparison of two keys, as bytes.Compare: -1, 0 or 1
RECURSIVE Compare(_, _)
Compare(a, b) ==
  IF Len(a) = 0 /\ Len(b) = 0 THEN 0
  ELSE IF Len(a) = 0 THEN -1
  ELSE IF Len(b) = 0 THEN 1
  ELSE IF a[1] < b[1] THEN -1
  ELSE IF a[1] > b[1] THEN 1
  ELSE Compare(Tail(a), Tail(b))

\* ------------------------------------------------------------------ state

VARIABLES
  mem,          \* the serialised nodes of the file, by start offset
  meta,         \* [version, root, end]: the header at offset 0
  mapLen,       \* len(mMap): 0 while nothing is mapped
  fileSize,     \* size of the file on disk
  Opened,       \* MMCMap.Opened
  IsResizing,   \* MMCMap.IsResizing: 0 or 1
  SignalResize, \* a signal is waiting in the SignalResize channel
  RWResizeLock, \* [readers, writer, waiting]: holders of the read lock, the resize
                \* worker holds the lock, the resize worker waits for it
  pc,           \* where every goroutine of a concurrent run is
  wr,           \* the locals of every writer's call
  rd,           \* the locals of the reader's call
  kv,           \* history: for every key, the value of the last Put and whether a
                \* Delete came after it
  last,         \* history: the last call made, with its arguments
  closedView,   \* history: the header and what Get returned when Close was called
  beforeCall,   \* history: what Get returned before the last sequential Put or Delete
  prev,         \* history: the call before the last sequential Put or Delete, the
                \* header before the last one and before the one before it, and
                \* what the last one returned
  nops,         \* history: number of Put/Delete calls made
  contended,    \* history: a writer lost the swap of the version to another writer
  SignalFlush,  \* a signal is waiting in the SignalFlush channel
  synced,       \* the header as the last File.Sync that succeeded found it
  dropped       \* history: the version of the last publication whose signal to
                \* the flush worker found the channel full

fileVars == <<mem, meta, mapLen, fileSize>>
concVars == <<IsResizing, SignalResize, RWResizeLock, pc, wr, rd>>
histVars == <<kv, last, closedView, beforeCall, prev, nops, contended>>
flushVars == <<SignalFlush, synced, dropped>>
vars == <<fileVars, Opened, concVars, histVars, flushVars>>

EmptyMem == [o \in {} |-> 0]
Absent == [present |-> FALSE, value |-> <<>>, deleted |-> FALSE]
Stored(v) == [present |-> TRUE, value |-> v, deleted |-> FALSE]
Removed(old) == [present |-> FALSE, value |-> old.value, deleted |-> TRUE]

\* ------------------------------------------------------------------ nodes

\* a leaf as the node pool hands it out
resetLNode == [version |-> 0, key |-> <<>>, value |-> <<>>]

\* an internal node as the node pool hands it out
resetINode ==
  [version |-> 0, start |-> 0, bitmap |-> {}, leaf |-> resetLNode, children |-> <<>>]

newInternalNode(version) == [resetINode EXCEPT !.version = version]

newLeafNode(key, value, version) ==
  [version |-> version, key |-> key, value |-> value]

\* a child as DeserializeINode leaves it: only its offset is known
ChildStub(off) == [resetINode EXCEPT !.start = off]

\* ------------------------------------------------------------------ bitmap

getIndexForLevel(key, level) == key[level + 1]

getPosition(bitmap, index, level) == Cardinality({b \in bitmap : b < index})

\* a variant of the test below that finds no bit set
IsBitSetNever(bitmap, index) == FALSE

IsBitSet(bitmap, index) == index \in bitmap

SetBit(bitmap, index) ==
  IF index \in bitmap THEN bitmap \ {index} ELSE bitmap \cup {index}

calculateHammingWeight(bitmap) == Cardinality(bitmap)

\* a variant of the table below with the new node after all the others
extendTableAtEnd(orig, bitmap, pos, newNode) == orig \o <<newNode>>

extendTable(orig, bitmap, pos, newNode) ==
  SubSeq(orig, 1, pos) \o <<newNode>> \o SubSeq(orig, pos + 1, Len(orig))

shrinkTable(orig, bitmap, pos) ==
  SubSeq(orig, 1, pos) \o SubSeq(orig, pos + 2, Len(orig))

\* ------------------------------------------------------------------ reading

\* the bytes at off are those of a completely written internal node and leaf
Readable(off) ==
  /\ off \in DOMAIN mem
  /\ mem[off].kind = "I"
  /\ mem[off].leaf \in DOMAIN mem

ReadLNodeFromMemMap(off) ==
  [version |-> mem[off].version, key |-> mem[off].key, value |-> mem[off].value]

ReadINodeFromMemMap(off) ==
  [version |-> mem[off].version,
   start |-> off,
   bitmap |-> mem[off].bitmap,
   leaf |-> ReadLNodeFromMemMap(mem[off].leaf),
   children |-> [i \in 1..Len(mem[off].children) |-> ChildStub(mem[off].children[i])]]

\* getChildNode: a child of this version is part of the path, any other is read
getChildNode(childOffset, version) ==
  IF childOffset.version = version THEN childOffset
  ELSE ReadINodeFromMemMap(childOffset.start)

\* ------------------------------------------------------------------ Put

\* copyINode followed by `nodeCopy.Leaf.Version = nodeCopy.Version`: the leaf is
\* shared with the node copied, so the assignment stamps the leaf of every node
\* on the path
copyINode(node) == node

\* a variant of the terminal step that keeps the value of a key already stored
putLeafKeepsValue(nodeCopy, key, value) ==
  IF Len(nodeCopy.leaf.key) > 0 /\ nodeCopy.leaf.key = key
  THEN nodeCopy
  ELSE [nodeCopy EXCEPT !.leaf = newLeafNode(key, value, nodeCopy.version)]

\* the terminal step of putRecursive: the node the key ends at gets the value
putLeaf(nodeCopy, key, value) ==
  IF Len(nodeCopy.leaf.key) > 0 /\ nodeCopy.leaf.key = key
  THEN [nodeCopy EXCEPT !.leaf.value = value]
  ELSE [nodeCopy EXCEPT !.leaf = newLeafNode(key, value, nodeCopy.version)]

RECURSIVE putRecursive(_, _, _, _)
putRecursive(node, key, value, level) ==
  LET nodeCopy == [copyINode(node) EXCEPT !.leaf.version = node.version]
  IN IF Len(key) = level
     THEN putLeaf(nodeCopy, key, value)
     ELSE LET index == getIndexForLevel(key, level)
              pos == getPosition(nodeCopy.bitmap, index, level)
          IN IF ~IsBitSet(nodeCopy.bitmap, index)
             THEN LET bitmap == SetBit(nodeCopy.bitmap, index)
                      newINode == newInternalNode(nodeCopy.version)
                      updatedINode == putRecursive(newINode, key, value, level + 1)
                  IN [nodeCopy EXCEPT
                        !.bitmap = bitmap,
                        !.children = extendTable(nodeCopy.children, bitmap, pos, updatedINode)]
             ELSE LET childOffset == nodeCopy.children[pos + 1]
                      childNode == [getChildNode(childOffset, nodeCopy.version)
                                      EXCEPT !.version = nodeCopy.version]
                  IN [nodeCopy EXCEPT
                        !.children[pos + 1] = putRecursive(childNode, key, value, level + 1)]

\* ------------------------------------------------------------------ Delete

\* a variant of the terminal step that leaves the leaf of a node with children
deleteLeafKeepsBranch(nodeCopy, key) ==
  IF Len(nodeCopy.leaf.key) > 0 /\ nodeCopy.leaf.key = key /\ nodeCopy.bitmap = {}
  THEN [nodeCopy EXCEPT !.leaf = newLeafNode(<<>>, <<>>, nodeCopy.version)]
  ELSE nodeCopy

\* the terminal step of deleteRecursive: the leaf of the key becomes an empty leaf
deleteLeaf(nodeCopy, key) ==
  IF Len(nodeCopy.leaf.key) > 0 /\ nodeCopy.leaf.key = key
  THEN [nodeCopy EXCEPT !.leaf = newLeafNode(<<>>, <<>>, nodeCopy.version)]
  ELSE nodeCopy

\* a variant of the test below that does not look at the version of the leaf
childIsEmptyAnyLeaf(updatedChildNode, nodeCopy) ==
  calculateHammingWeight(updatedChildNode.bitmap) = 0

\* deleteRecursive's test for unlinking the child it returned from
childIsEmpty(updatedChildNode, nodeCopy) ==
  /\ updatedChildNode.leaf.version = nodeCopy.version
  /\ calculateHammingWeight(updatedChildNode.bitmap) = 0

RECURSIVE deleteRecursive(_, _, _)
deleteRecursive(node, key, level) ==
  LET nodeCopy == copyINode(node)
  IN IF Len(key) = level
     THEN deleteLeaf(nodeCopy, key)
     ELSE LET index == getIndexForLevel(key, level)
          IN IF ~IsBitSet(nodeCopy.bitmap, index)
             THEN node
             ELSE LET pos == getPosition(nodeCopy.bitmap, index, level)
                      childOffset == nodeCopy.children[pos + 1]
                      childNode == [getChildNode(childOffset, nodeCopy.version)
                                      EXCEPT !.version = nodeCopy.version]
                      updatedChildNode == deleteRecursive(childNode, key, level + 1)
                      withChild == [nodeCopy EXCEPT !.children[pos + 1] = updatedChildNode]
                  IN IF childIsEmpty(updatedChildNode, nodeCopy)
                     THEN LET bitmap == SetBit(withChild.bitmap, index)
                          IN [withChild EXCEPT
                                !.bitmap = bitmap,
                                !.children = shrinkTable(withChild.children, bitmap, pos)]
                     ELSE withChild

\* ------------------------------------------------------------------ Get

NoPair == [status |-> "none", version |-> 0, key |-> <<>>, value |-> <<>>]
ReadError == [status |-> "error", version |-> 0, key |-> <<>>, value |-> <<>>]
KeyValuePair(leaf) ==
  [status |-> "pair", version |-> leaf.version, key |-> leaf.key, value |-> leaf.value]

\* a variant of the test below that does not look at the length of the leaf's key
leafHasKeyOfAnyLength(leaf, key) == key = leaf.key

\* getRecursive: `len(currNode.Leaf.Key) > 0 && bytes.Equal(key, currNode.Leaf.Key)`
leafHasKey(leaf, key) == Len(leaf.key) > 0 /\ key = leaf.key

RECURSIVE getRecursive(_, _, _)
getRecursive(node, key, level) ==
  IF Len(key) = level
  THEN IF leafHasKey(node.leaf, key)
       THEN KeyValuePair(node.leaf)
       ELSE NoPair
  ELSE LET index == getIndexForLevel(key, level)
       IN IF ~IsBitSet(node.bitmap, index)
          THEN NoPair
          ELSE LET pos == getPosition(node.bitmap, index, level)
                   childOffset == node.children[pos + 1]
               IN IF ~Readable(childOffset.start)
                  THEN ReadError
                  ELSE getRecursive(ReadINodeFromMemMap(childOffset.start), key, level + 1)

\* Get from the root the caller read
GetFrom(rootOffset, key) ==
  IF ~Readable(rootOffset) THEN ReadError
  ELSE getRecursive(ReadINodeFromMemMap(rootOffset), key, 0)

Get(key) == IF mapLen = 0 THEN ReadError ELSE GetFrom(meta.root, key)

\* ------------------------------------------------------------------ Range

\* a boundary key of the traversal: nil, or the bytes of a key
NilKey == [isNil |-> TRUE, bytes |-> <<>>]
KeyOf(bytes) == [isNil |-> FALSE, bytes |-> bytes]

genKeyValPair(node) ==
  [version |-> node.leaf.version, key |-> node.leaf.key, value |-> node.leaf.value]

RangeOk(pairs) == [status |-> "ok", pairs |-> pairs]
RangePanic == [status |-> "panic", pairs |-> <<>>]
RangeError == [status |-> "error", pairs |-> <<>>]

\* what the first switch of rangeRecursive decides for a node below the root:
\* the pairs emitted, whether the node returns at once, and the child positions
rangeBounds(currNode, minVersion, startKey, endKey, level) ==
  IF level > 0
  THEN IF ~startKey.isNil /\ Len(startKey.bytes) > level
       THEN IF currNode.leaf.version >= minVersion
                 /\ Compare(currNode.leaf.key, startKey.bytes) = 1
            THEN [pairs |-> <<genKeyValPair(currNode)>>, return |-> FALSE,
                  startKeyPos |-> getPosition(currNode.bitmap,
                                              getIndexForLevel(startKey.bytes, 0), 0),
                  endKeyPos |-> Len(currNode.children)]
            ELSE [pairs |-> <<>>, return |-> TRUE, startKeyPos |-> 0, endKeyPos |-> 0]
       ELSE IF ~endKey.isNil /\ Len(endKey.bytes) > level
       THEN IF currNode.leaf.version >= minVersion
                 /\ Compare(currNode.leaf.key, endKey.bytes) = -1
            THEN [pairs |-> <<genKeyValPair(currNode)>>, return |-> FALSE,
                  startKeyPos |-> 0,
                  endKeyPos |-> getPosition(currNode.bitmap,
                                            getIndexForLevel(endKey.bytes, 0), 0)]
            ELSE [pairs |-> <<>>, return |-> TRUE, startKeyPos |-> 0, endKeyPos |-> 0]
       ELSE [pairs |-> IF currNode.leaf.version >= minVersion
                          /\ Len(currNode.leaf.key) > 0
                       THEN <<genKeyValPair(currNode)>> ELSE <<>>,
             return |-> FALSE, startKeyPos |-> 0, endKeyPos |-> Len(currNode.children)]
  ELSE [pairs |-> <<>>, return |-> FALSE,
        startKeyPos |-> getPosition(currNode.bitmap,
                                    getIndexForLevel(startKey.bytes, 0), 0),
        endKeyPos |-> getPosition(currNode.bitmap,
                                  getIndexForLevel(endKey.bytes, 0), 0)]

RECURSIVE rangeRecursive(_, _, _, _, _), rangeChildren(_, _, _, _, _, _, _)

\* the loop over currNode.Children[startKeyPos:endKeyPos], from slice index idx on
rangeChildren(currNode, minVersion, startKey, endKey, level, bounds, idx) ==
  IF bounds.startKeyPos + idx >= bounds.endKeyPos
  THEN RangeOk(<<>>)
  ELSE LET childOffset == currNode.children[bounds.startKeyPos + idx + 1]
           inPath == childOffset.version = currNode.version
           kvPairs ==
             IF ~inPath /\ ~Readable(childOffset.start) THEN RangeError
             ELSE LET childNode == getChildNode(childOffset, currNode.version)
                  IN IF idx = 0 /\ ~startKey.isNil
                     THEN rangeRecursive(childNode, minVersion, startKey, NilKey, level + 1)
                     ELSE IF idx = bounds.endKeyPos /\ ~endKey.isNil
                     THEN rangeRecursive(childNode, minVersion, NilKey, endKey, level + 1)
                     ELSE rangeRecursive(childNode, minVersion, NilKey, NilKey, level + 1)
       IN IF kvPairs.status # "ok" THEN kvPairs
          ELSE LET rest == rangeChildren(currNode, minVersion, startKey, endKey,
                                         level, bounds, idx + 1)
               IN IF rest.status # "ok" THEN rest
                  ELSE RangeOk(kvPairs.pairs \o rest.pairs)

rangeRecursive(currNode, minVersion, startKey, endKey, level) ==
  LET bounds == rangeBounds(currNode, minVersion, startKey, endKey, level)
  IN IF bounds.return THEN RangeOk(bounds.pairs)
     ELSE IF Len(currNode.children) = 0 THEN RangeOk(bounds.pairs)
     ELSE IF bounds.startKeyPos = bounds.endKeyPos
     THEN IF bounds.startKeyPos >= Len(currNode.children) THEN RangePanic
          ELSE LET childOffset == currNode.children[bounds.startKeyPos + 1]
               IN IF childOffset.version # currNode.version /\ ~Readable(childOffset.start)
                  THEN RangeError
                  ELSE LET kvPairs == rangeRecursive(
                                        getChildNode(childOffset, currNode.version),
                                        minVersion, startKey, endKey, level + 1)
                       IN IF kvPairs.status # "ok" THEN kvPairs
                          ELSE RangeOk(bounds.pairs \o kvPairs.pairs)
     ELSE IF bounds.startKeyPos > bounds.endKeyPos
             \/ bounds.endKeyPos > Len(currNode.children)
     THEN RangePanic
     ELSE LET kvPairs == rangeChildren(currNode, minVersion, startKey, endKey,
                                       level, bounds, 0)
          IN IF kvPairs.status # "ok" THEN kvPairs
             ELSE RangeOk(bounds.pairs \o kvPairs.pairs)

InvalidRange == [status |-> "invalid", pairs |-> <<>>]

\* a variant of the comparison of the bounds that also turns equal bounds down
startNotBeforeEnd(startKey, endKey) == Compare(startKey, endKey) >= 0

\* the comparison Range makes of its bounds first
startAfterEnd(startKey, endKey) == Compare(startKey, endKey) = 1

\* Range once it has loaded rootOffset from the header
RangeFrom(rootOffset, startKey, endKey, minVersion) ==
  IF mapLen = 0 \/ ~Readable(rootOffset) THEN RangeError
  ELSE IF Len(startKey) = 0 \/ Len(endKey) = 0 THEN RangePanic
  ELSE rangeRecursive(ReadINodeFromMemMap(rootOffset), minVersion,
                      KeyOf(startKey), KeyOf(endKey), 0)

\* Range(startKey, endKey, minVersion), minVersion 0 standing for nil
Range(startKey, endKey, minVersion) ==
  IF startAfterEnd(startKey, endKey) THEN InvalidRange
  ELSE RangeFrom(meta.root, startKey, endKey, minVersion)

\* ------------------------------------------------------------------ serialise

\* size in bytes of a serialised internal node and of a serialised leaf
INodeSize(node) == NodeChildrenIdx + NodeChildPtrSize * calculateHammingWeight(node.bitmap)
LNodeSize(leaf) == NodeKeyIdx + Len(leaf.key) + Len(leaf.value)

\* The path copy laid out from `offset` on: every node is followed by its leaf and
\* then by those of its children that belong to the path (same version); any other
\* child is written as the offset it already has.  The result is the nodes by
\* start offset and the first offset after them.
\* a variant of the test below that takes every child for one of the path
childOnPathAlways(child, version) == TRUE

\* serializeRecursive: a child of the version of the path is serialised after its
\* parent, `child.Version != version` is written as the offset it has
childOnPath(child, version) == child.version = version

RECURSIVE serializeRecursive(_, _), serializeChildren(_, _, _, _)
serializeChildren(children, i, version, nextStartOffset) ==
  IF i > Len(children)
  THEN [offsets |-> <<>>, nodes |-> EmptyMem, next |-> nextStartOffset]
  ELSE IF ~childOnPath(children[i], version)
  THEN LET rest == serializeChildren(children, i + 1, version, nextStartOffset)
       IN [offsets |-> <<children[i].start>> \o rest.offsets,
           nodes |-> rest.nodes, next |-> rest.next]
  ELSE LET child == serializeRecursive(children[i], nextStartOffset)
           rest == serializeChildren(children, i + 1, version, child.next)
       IN [offsets |-> <<nextStartOffset>> \o rest.offsets,
           nodes |-> child.nodes @@ rest.nodes, next |-> rest.next]

serializeRecursive(node, offset) ==
  LET leafOffset == offset + INodeSize(node)
      sChildren == serializeChildren(node.children, 1, node.version,
                                     leafOffset + LNodeSize(node.leaf))
      sINode == [kind |-> "I", version |-> node.version, bitmap |-> node.bitmap,
                 leaf |-> leafOffset, children |-> sChildren.offsets,
                 key |-> <<>>, value |-> <<>>]
      sLNode == [kind |-> "L", version |-> node.leaf.version, bitmap |-> {},
                 leaf |-> 0, children |-> <<>>,
                 key |-> node.leaf.key, value |-> node.leaf.value]
  IN [nodes |-> (offset :> sINode) @@ (leafOffset :> sLNode) @@ sChildren.nodes,
      next |-> sChildren.next]

SerializePathToMemMap(root, nextOffsetInMMap) ==
  serializeRecursive(root, nextOffsetInMMap)

\* ------------------------------------------------------------------ growth

\* a variant of the size below that doubles at every length
allocateSizeDoubles(len) ==
  IF len = 0 THEN InitMapSize
  ELSE len * 2

\* resizeMmap: the size the file is truncated to and mapped at, from the length
\* of the mapping resizeMmap found
allocateSize(len) ==
  IF len = 0 THEN InitMapSize
  ELSE IF len >= MaxResize THEN len + MaxResize
  ELSE len * 2

\* a variant of the test below that never asks for a larger mapping
determineIfResizeNever(offset, len) == FALSE

\* determineIfResize: the projected end offset does not fit the mapping
determineIfResize(offset, len) == ~(offset > 0 /\ offset < len)

\* the length of the mapping once the resize worker has grown it to hold `offset`
RECURSIVE grownTo(_, _)
grownTo(len, offset) ==
  IF determineIfResize(offset, len) THEN grownTo(allocateSize(len), offset) ELSE len

\* ------------------------------------------------------------------ open, close

\* initRoot and initMeta: the version 0 root, its leaf, and the first header
initRoot == SerializePathToMemMap(resetINode, InitRootOffset)

\* a variant of the first header whose root offset is the end offset
initMetaRootAtEnd(endRoot) == [version |-> 0, root |-> endRoot, end |-> endRoot]

initMeta(endRoot) == [version |-> 0, root |-> InitRootOffset, end |-> endRoot]

\* a variant of initializeFile that initialises whatever the file holds
initializeFileAlways ==
  /\ mapLen' = IF fileSize = 0 THEN allocateSize(0) ELSE fileSize
  /\ fileSize' = IF fileSize = 0 THEN allocateSize(0) ELSE fileSize
  /\ mem' = initRoot.nodes @@ mem
  /\ meta' = initMeta(initRoot.next)
  /\ synced' = initMeta(initRoot.next)

\* initializeFile: a file of size 0 is grown and initialised, any other is mapped;
\* initRoot and initMeta flush what they write
initializeFile ==
  IF fileSize = 0
  THEN /\ mapLen' = allocateSize(0)
       /\ fileSize' = allocateSize(0)
       /\ mem' = initRoot.nodes
       /\ meta' = initMeta(initRoot.next)
       /\ synced' = initMeta(initRoot.next)
  ELSE /\ mapLen' = fileSize
       /\ UNCHANGED <<fileSize, mem, meta, synced>>

Writers == {"w1", "w2"}
Reader == "r1"
Resizer == "resize"
Flusher == "flush"

NoCall == [kind |-> "none", key |-> <<>>, value |-> <<>>]
NoLocals ==
  [call |-> NoCall, path |-> resetINode, version |-> 0, prevRootOffset |-> 0,
   endOffset |-> 0, serializedPath |-> EmptyMem, nextStartOffset |-> 0]
NoGet == [kind |-> "none", key |-> <<>>, endKey |-> <<>>, rootOffset |-> 0,
          result |-> NoPair, range |-> RangeOk(<<>>), snapshot |-> NoPair,
          returned |-> FALSE, stable |-> FALSE, expected |-> <<>>,
          overlapped |-> FALSE, overtaken |-> FALSE]
NoPrev == [call |-> NoCall, meta |-> [version |-> 0, root |-> 0, end |-> 0],
           before |-> [version |-> 0, root |-> 0, end |-> 0], returned |-> FALSE]
NoView == [taken |-> FALSE, meta |-> [version |-> 0, root |-> 0, end |-> 0],
           gets |-> [k \in Keys |-> NoPair]]

Init ==
  /\ mem = EmptyMem
  /\ meta = [version |-> 0, root |-> 0, end |-> 0]
  /\ mapLen = 0
  /\ fileSize = 0
  /\ Opened = FALSE
  /\ IsResizing = 0
  /\ SignalResize = FALSE
  /\ RWResizeLock = [readers |-> {}, writer |-> FALSE, waiting |-> FALSE]
  /\ pc = [p \in Writers \cup {Reader, Resizer, Flusher} |-> "idle"]
  /\ wr = [w \in Writers |-> [locals |-> NoLocals, calls |-> 0, outcome |-> "none"]]
  /\ rd = NoGet
  /\ kv = [k \in Keys |-> Absent]
  /\ last = NoCall
  /\ closedView = NoView
  /\ beforeCall = [k \in Keys |-> NoPair]
  /\ prev = NoPrev
  /\ nops = 0
  /\ contended = FALSE
  /\ SignalFlush = FALSE
  /\ synced = [version |-> 0, root |-> 0, end |-> 0]
  /\ dropped = 0

Open ==
  /\ ~Opened
  /\ Opened' = TRUE
  /\ initializeFile
  /\ last' = [kind |-> "open", key |-> <<>>, value |-> <<>>]
  /\ UNCHANGED <<concVars, kv, closedView, beforeCall, prev, nops, contended,
                 SignalFlush, dropped>>

\* Close unmaps and closes the file; the bytes stay in the file
Close ==
  /\ Opened
  /\ Opened' = FALSE
  /\ mapLen' = 0
  /\ closedView' = [taken |-> TRUE, meta |-> meta, gets |-> [k \in Keys |-> Get(k)]]
  /\ last' = [kind |-> "close", key |-> <<>>, value |-> <<>>]
  /\ UNCHANGED <<mem, meta, fileSize, concVars, kv, beforeCall, prev, nops, contended,
                 flushVars>>

\* ------------------------------------------------------------------ sequential calls

\* the SignalFlush channel holds one signal: it is full when a signal waits in it
flushChannelFull == SignalFlush

\* signalFlush: the send does not wait; a signal that finds one waiting in the
\* channel is dropped
signalFlush(version) ==
  /\ SignalFlush' = TRUE
  /\ dropped' = IF flushChannelFull THEN version ELSE dropped

\* updatedMeta: the header a publication stores
updatedMeta(path, newOffsetInMMap, nextStartOffset) ==
  [version |-> path.version, root |-> newOffsetInMMap, end |-> nextStartOffset]

\* exclusiveWriteMmap for a caller that runs alone: the path is laid out at the end
\* offset, the mapping is grown by the resize worker until the path fits, the
\* version is swapped from path.version - 1, and end offset, nodes and root offset
\* are stored
exclusiveWriteMmap(path) ==
  LET serializedPath == SerializePathToMemMap(path, meta.end)
  IN /\ meta.version = path.version - 1
     /\ mapLen' = grownTo(mapLen, serializedPath.next)
     /\ fileSize' = grownTo(mapLen, serializedPath.next)
     /\ synced' = IF determineIfResize(serializedPath.next, mapLen) THEN meta ELSE synced
     /\ mem' = serializedPath.nodes @@ mem
     /\ meta' = updatedMeta(path, meta.end, serializedPath.next)
     /\ signalFlush(path.version)

\* the root a mutation starts from: the current root with its version incremented
currRoot(rootOffset) ==
  [ReadINodeFromMemMap(rootOffset) EXCEPT !.version = @ + 1]

Put(key, value) ==
  /\ Opened
  /\ nops < MaxOps
  /\ exclusiveWriteMmap(putRecursive(currRoot(meta.root), key, value, 0))
  /\ kv' = [kv EXCEPT ![key] = Stored(value)]
  /\ last' = [kind |-> "put", key |-> key, value |-> value]
  /\ nops' = nops + 1
  /\ beforeCall' = [k \in Keys |-> Get(k)]
  /\ prev' = [call |-> last, meta |-> meta, before |-> prev.meta, returned |-> TRUE]
  /\ UNCHANGED <<Opened, concVars, closedView, contended>>

Delete(key) ==
  /\ Opened
  /\ nops < MaxOps
  /\ exclusiveWriteMmap(deleteRecursive(currRoot(meta.root), key, 0))
  /\ kv' = [kv EXCEPT ![key] = Removed(kv[key])]
  /\ last' = [kind |-> "delete", key |-> key, value |-> <<>>]
  /\ nops' = nops + 1
  /\ beforeCall' = [k \in Keys |-> Get(k)]
  /\ prev' = [call |-> last, meta |-> meta, before |-> prev.meta, returned |-> TRUE]
  /\ UNCHANGED <<Opened, concVars, closedView, contended>>

Next ==
  \/ Open
  \/ Close
  \/ \E key \in Keys, value \in Values : Put(key, value)
  \/ \E key \in Keys : Delete(key)

Spec == Init /\ [][Next]_vars

\* ------------------------------------------------------------------ concurrent calls

\* the keys a writer of a concurrent run calls Put and Delete with: the writers
\* work on distinct keys, which share the nodes of their common prefixes
WriterKeys(w) == IF w = "w1" THEN {<<1>>} ELSE {<<1, 2>>, <<2>>}

\* the number of calls a writer makes
WriterOps(w) == IF w = "w1" THEN MaxWriterOps ELSE MaxWriterOps - 1

\* the value a writer puts
WriterValue(w) == IF w = "w1" THEN <<1>> ELSE <<2>>

\* the keys the reader of a concurrent run calls Get with
ReaderKeys == {<<1>>, <<1, 2>>}

\* the bounds the reader of a concurrent run calls Range with
ReaderRanges == {<<<<1>>, <<2>>>>}

Locals(w) == wr[w].locals

RLock(p) == [RWResizeLock EXCEPT !.readers = @ \cup {p}]

\* a variant of the release below that leaves the read lock held
RUnlockForgets(p) == RWResizeLock

\* RWResizeLock.RUnlock()
RUnlock(p) == [RWResizeLock EXCEPT !.readers = @ \ {p}]

\* a variant of the order below in which the root offset is stored before the nodes
publishOrderRootFirst == <<"storeEnd", "storeRoot", "write">>

\* what exclusiveWriteMmap does once it has swapped the version, in order: store
\* the end offset, write the nodes, store the root offset
publishOrder == <<"storeEnd", "write", "storeRoot">>

AfterStep(step) ==
  LET i == CHOOSE j \in 1..Len(publishOrder) : publishOrder[j] = step
  IN IF i = Len(publishOrder) THEN "return" ELSE publishOrder[i + 1]

\* the writer has swapped the version and has not stored all of the publication
Publishing(w) == pc[w] \in {"storeEnd", "write", "storeRoot"}

\* Put or Delete is called
StartCall(w, call) ==
  /\ Opened
  /\ pc[w] = "idle"
  /\ wr[w].calls < WriterOps(w)
  /\ pc' = [pc EXCEPT ![w] = "spin"]
  /\ wr' = [wr EXCEPT ![w].locals = [NoLocals EXCEPT !.call = call]]
  /\ rd' = IF pc[Reader] # "idle" /\ rd.key = call.key
            THEN [rd EXCEPT !.stable = FALSE] ELSE rd
  /\ UNCHANGED <<fileVars, Opened, IsResizing, SignalResize, RWResizeLock, histVars,
                 flushVars>>

\* `for atomic.LoadUint32(&mmcMap.IsResizing) == 1 { runtime.Gosched() }`
Spin(p) ==
  /\ pc[p] = "spin"
  /\ IsResizing = 0
  /\ pc' = [pc EXCEPT ![p] = "rlock"]
  /\ UNCHANGED <<fileVars, Opened, IsResizing, SignalResize, RWResizeLock, wr, rd,
                 histVars, flushVars>>

\* a variant of the condition below that never waits
canRLockAlways == TRUE

\* RWResizeLock.RLock() waits while the resize worker holds or awaits the lock
canRLock == ~RWResizeLock.writer /\ ~RWResizeLock.waiting

AcquireRLock(p) ==
  /\ pc[p] = "rlock"
  /\ canRLock
  /\ RWResizeLock' = RLock(p)
  /\ pc' = [pc EXCEPT ![p] = IF p \in Writers THEN "build"
                              ELSE IF p = Reader THEN "loadRoot" ELSE "sync"]
  /\ UNCHANGED <<fileVars, Opened, IsResizing, SignalResize, wr, rd, histVars, flushVars>>

\* the version and the root offset are loaded, the root is read and the path is
\* copied from it; the call returns the error of loadMetaVersion, which fails if
\* nothing is mapped, without releasing the read lock
BuildPath(w) ==
  /\ pc[w] = "build"
  /\ IF mapLen = 0
     THEN /\ pc' = [pc EXCEPT ![w] = "idle"]
          /\ wr' = [wr EXCEPT ![w].locals = NoLocals, ![w].calls = @ + 1,
                              ![w].outcome = "error"]
          /\ UNCHANGED RWResizeLock
     ELSE IF ~Readable(meta.root)
     THEN /\ pc' = [pc EXCEPT ![w] = "idle"]
          /\ RWResizeLock' = RUnlock(w)
          /\ wr' = [wr EXCEPT ![w].locals = NoLocals, ![w].calls = @ + 1,
                              ![w].outcome = "error"]
     ELSE /\ pc' = [pc EXCEPT ![w] = "load"]
          /\ wr' = [wr EXCEPT ![w].locals.path =
                       IF Locals(w).call.kind = "put"
                       THEN putRecursive(currRoot(meta.root), Locals(w).call.key,
                                         Locals(w).call.value, 0)
                       ELSE deleteRecursive(currRoot(meta.root), Locals(w).call.key, 0)]
          /\ UNCHANGED RWResizeLock
  /\ UNCHANGED <<fileVars, Opened, IsResizing, SignalResize, rd, histVars, flushVars>>

\* exclusiveWriteMmap: the check of IsResizing and the loads of version and root
LoadVersion(w) ==
  /\ pc[w] = "load"
  /\ IF IsResizing = 1
     THEN /\ pc' = [pc EXCEPT ![w] = "retry"]
          /\ UNCHANGED wr
     ELSE /\ pc' = [pc EXCEPT ![w] = "serialize"]
          /\ wr' = [wr EXCEPT ![w].locals.version = meta.version,
                              ![w].locals.prevRootOffset = meta.root]
  /\ UNCHANGED <<fileVars, Opened, IsResizing, SignalResize, RWResizeLock, rd,
                 histVars, flushVars>>

\* a variant of the offset below: the path is laid out over the current root
newOffsetAtRoot == meta.root

\* `newOffsetInMMap := endOffset`: the path is laid out from the end offset loaded
newOffsetInMMap == meta.end

\* a variant of the send below that leaves the channel as it is
signalResizeLost == SignalResize

\* `mmcMap.SignalResize <- true`: the writer that set IsResizing posts the request
signalResize == TRUE

\* exclusiveWriteMmap: the load of the end offset, SerializePathToMemMap and
\* determineIfResize, which signals the resize worker if it sets IsResizing
SerializePath(w) ==
  /\ pc[w] = "serialize"
  /\ LET serializedPath == SerializePathToMemMap(Locals(w).path, newOffsetInMMap)
     IN /\ wr' = [wr EXCEPT ![w].locals.endOffset = meta.end,
                            ![w].locals.serializedPath = serializedPath.nodes,
                            ![w].locals.nextStartOffset = serializedPath.next]
        /\ IF ~determineIfResize(serializedPath.next, mapLen)
           THEN /\ pc' = [pc EXCEPT ![w] = "cas"]
                /\ UNCHANGED <<IsResizing, SignalResize>>
           ELSE /\ pc' = [pc EXCEPT ![w] = "retry"]
                /\ IF mapLen = 0 \/ IsResizing # 0
                   THEN UNCHANGED <<IsResizing, SignalResize>>
                   ELSE IsResizing' = 1 /\ SignalResize' = signalResize
  /\ UNCHANGED <<fileVars, Opened, RWResizeLock, rd, histVars, flushVars>>

\* a variant of the swap below that stores the version without comparing
storeVersion(w) == Locals(w).version = Locals(w).path.version - 1

\* `version == updatedMeta.Version - 1 && CompareAndSwapUint64(versionPtr, version,
\* updatedMeta.Version)`: whether the swap succeeds
compareAndSwapVersion(w) ==
  /\ Locals(w).version = Locals(w).path.version - 1
  /\ meta.version = Locals(w).version

\* a variant of the version below that swaps in the version that was loaded
newVersionStale(w) == Locals(w).version

\* `newVersion := path.Version`: the version the swap puts into the header
newVersion(w) == Locals(w).path.version

\* exclusiveWriteMmap: the second check of IsResizing and the swap of the version
SwapVersion(w) ==
  /\ pc[w] = "cas"
  /\ IF IsResizing = 0 /\ compareAndSwapVersion(w)
     THEN /\ meta' = [meta EXCEPT !.version = newVersion(w)]
          /\ pc' = [pc EXCEPT ![w] = publishOrder[1]]
          /\ UNCHANGED wr
          /\ UNCHANGED contended
     ELSE /\ pc' = [pc EXCEPT ![w] = "retry"]
          /\ contended' = (contended \/ IsResizing = 0)
          /\ UNCHANGED <<meta, wr>>
  /\ UNCHANGED <<mem, mapLen, fileSize, Opened, IsResizing, SignalResize, RWResizeLock,
                 rd, kv, last, closedView, beforeCall, prev, nops, flushVars>>

\* storeMetaPointer(endOffsetPtr, updatedMeta.NextStartOffset)
StoreEndOffset(w) ==
  /\ pc[w] = "storeEnd"
  /\ meta' = [meta EXCEPT !.end = Locals(w).nextStartOffset]
  /\ pc' = [pc EXCEPT ![w] = AfterStep("storeEnd")]
  /\ UNCHANGED <<mem, mapLen, fileSize, Opened, IsResizing, SignalResize, RWResizeLock,
                 wr, rd, histVars, flushVars>>

\* the lowest offset of the nodes still to be written
FirstOffset(nodes) == CHOOSE o \in DOMAIN nodes : \A q \in DOMAIN nodes : o <= q

\* writeNodesToMemMap copies the serialised path from its first byte on: one node
\* at a time here
WriteNode(w) ==
  /\ pc[w] = "write"
  /\ LET nodes == Locals(w).serializedPath
         o == FirstOffset(nodes)
         rest == [q \in DOMAIN nodes \ {o} |-> nodes[q]]
     IN /\ mem' = (o :> nodes[o]) @@ mem
        /\ wr' = [wr EXCEPT ![w].locals.serializedPath = rest]
        /\ pc' = IF DOMAIN rest = {} THEN [pc EXCEPT ![w] = AfterStep("write")] ELSE pc
  /\ UNCHANGED <<meta, mapLen, fileSize, Opened, IsResizing, SignalResize, RWResizeLock,
                 rd, histVars, flushVars>>

\* the header exclusiveWriteMmap stores when writeNodesToMemMap failed: the end
\* offset of the path once more, the version and the root offset it loaded
restoredMeta(w) ==
  [version |-> Locals(w).version, root |-> Locals(w).prevRootOffset,
   end |-> Locals(w).nextStartOffset]

\* writeNodesToMemMap fails, its copy having written nothing: exclusiveWriteMmap
\* stores the header above and returns the error, and the call releases the lock
\* and returns it
WriteNodeFails(w) ==
  /\ pc[w] = "write"
  /\ Locals(w).endOffset \notin DOMAIN mem
  /\ meta' = restoredMeta(w)
  /\ pc' = [pc EXCEPT ![w] = "idle"]
  /\ RWResizeLock' = RUnlock(w)
  /\ wr' = [wr EXCEPT ![w].locals = NoLocals, ![w].calls = @ + 1,
                      ![w].outcome = "error"]
  /\ UNCHANGED <<mem, mapLen, fileSize, Opened, IsResizing, SignalResize, rd, histVars,
                 flushVars>>

\* a variant of the offset below: the root the writer loaded
staleRootOffset(w) == Locals(w).prevRootOffset

\* updatedMeta.RootOffset: where the path was laid out
newRootOffset(w) == Locals(w).endOffset

\* storeMetaPointer(rootOffsetPtr, updatedMeta.RootOffset)
StoreRootOffset(w) ==
  /\ pc[w] = "storeRoot"
  /\ meta' = [meta EXCEPT !.root = newRootOffset(w)]
  /\ pc' = [pc EXCEPT ![w] = AfterStep("storeRoot")]
  /\ UNCHANGED <<mem, mapLen, fileSize, Opened, IsResizing, SignalResize, RWResizeLock,
                 wr, rd, histVars, flushVars>>

\* exclusiveWriteMmap signals the flush worker and returns true: the call releases
\* the lock and returns
ReturnTrue(w) ==
  /\ pc[w] = "return"
  /\ signalFlush(Locals(w).path.version)
  /\ synced' = synced
  /\ pc' = [pc EXCEPT ![w] = "idle"]
  /\ RWResizeLock' = RUnlock(w)
  /\ wr' = [wr EXCEPT ![w].locals = NoLocals, ![w].calls = @ + 1,
                      ![w].outcome = "true"]
  /\ kv' = [kv EXCEPT ![Locals(w).call.key] =
               IF Locals(w).call.kind = "put" THEN Stored(Locals(w).call.value)
               ELSE Removed(kv[Locals(w).call.key])]
  /\ last' = Locals(w).call
  /\ nops' = nops + 1
  /\ UNCHANGED <<fileVars, Opened, IsResizing, SignalResize, rd, closedView, beforeCall,
                 prev, contended>>

\* a variant of the step below in which the call returns false to its caller
afterFalseReturns(w) ==
  [pc |-> "idle", locals |-> NoLocals, calls |-> wr[w].calls + 1, outcome |-> "false"]

\* what Put and Delete do when exclusiveWriteMmap returned false: the loop goes
\* round, the call is still the same and has not returned
afterFalse(w) ==
  [pc |-> "spin", locals |-> [NoLocals EXCEPT !.call = Locals(w).call],
   calls |-> wr[w].calls, outcome |-> wr[w].outcome]

\* exclusiveWriteMmap returned false: the lock is released and the call starts over
Retry(w) ==
  /\ pc[w] = "retry"
  /\ pc' = [pc EXCEPT ![w] = afterFalse(w).pc]
  /\ RWResizeLock' = RUnlock(w)
  /\ wr' = [wr EXCEPT ![w] = [locals |-> afterFalse(w).locals,
                              calls |-> afterFalse(w).calls,
                              outcome |-> afterFalse(w).outcome]]
  /\ UNCHANGED <<fileVars, Opened, IsResizing, SignalResize, rd, histVars, flushVars>>

\* Get is called
StartGet(key) ==
  /\ Opened
  /\ pc[Reader] = "idle"
  /\ pc' = [pc EXCEPT ![Reader] = "spin"]
  /\ rd' = [NoGet EXCEPT
              !.kind = "get",
              !.key = key,
              !.stable = /\ kv[key].present
                         /\ \A w \in Writers : pc[w] # "idle" => Locals(w).call.key # key,
              !.expected = kv[key].value]
  /\ UNCHANGED <<fileVars, Opened, IsResizing, SignalResize, RWResizeLock, wr,
                 histVars, flushVars>>

\* loadMetaRootOffset, which fails if nothing is mapped
LoadRootOffset ==
  /\ pc[Reader] = "loadRoot"
  /\ IF mapLen = 0
     THEN /\ pc' = [pc EXCEPT ![Reader] = "idle"]
          /\ rd' = [rd EXCEPT !.result = ReadError, !.returned = TRUE]
          /\ RWResizeLock' = RUnlock(Reader)
     ELSE /\ pc' = [pc EXCEPT ![Reader] = "read"]
          /\ rd' = [rd EXCEPT !.rootOffset = meta.root,
                              !.snapshot = GetFrom(meta.root, rd.key)]
          /\ UNCHANGED RWResizeLock
  /\ UNCHANGED <<fileVars, Opened, IsResizing, SignalResize, wr, histVars, flushVars>>

\* a variant of the root below that loads the root offset again
rootReloaded == meta.root

\* the root a Get or a Range descends from: the root offset it loaded
rootToRead == rd.rootOffset

\* ReadINodeFromMemMap(rootOffset) and getRecursive; the deferred RUnlock
ReadPath ==
  /\ pc[Reader] = "read"
  /\ pc' = [pc EXCEPT ![Reader] = "idle"]
  /\ rd' = [rd EXCEPT !.result = IF mapLen = 0 THEN ReadError
                                  ELSE GetFrom(rootToRead, rd.key),
                      !.returned = TRUE,
                      !.overlapped = \E w \in Writers : Publishing(w),
                      !.overtaken = meta.root # rd.rootOffset]
  /\ RWResizeLock' = RUnlock(Reader)
  /\ UNCHANGED <<fileVars, Opened, IsResizing, SignalResize, wr, histVars, flushVars>>

\* Range is called: the bounds are compared; no lock is taken and IsResizing is
\* not looked at
StartRange(startKey, endKey) ==
  /\ Opened
  /\ pc[Reader] = "idle"
  /\ IF startAfterEnd(startKey, endKey)
     THEN /\ rd' = [NoGet EXCEPT !.kind = "range", !.key = startKey, !.endKey = endKey,
                                 !.range = InvalidRange, !.returned = TRUE]
          /\ UNCHANGED pc
     ELSE /\ rd' = [NoGet EXCEPT !.kind = "range", !.key = startKey, !.endKey = endKey]
          /\ pc' = [pc EXCEPT ![Reader] = "rangeLoad"]
  /\ UNCHANGED <<fileVars, Opened, IsResizing, SignalResize, RWResizeLock, wr,
                 histVars, flushVars>>

\* Range's loadMetaRootOffset, which fails if nothing is mapped
RangeLoadRootOffset ==
  /\ pc[Reader] = "rangeLoad"
  /\ IF mapLen = 0
     THEN /\ pc' = [pc EXCEPT ![Reader] = "idle"]
          /\ rd' = [rd EXCEPT !.range = RangeError, !.returned = TRUE]
     ELSE /\ pc' = [pc EXCEPT ![Reader] = "rangeRead"]
          /\ rd' = [rd EXCEPT !.rootOffset = meta.root,
                              !.snapshot = RangeFrom(meta.root, rd.key, rd.endKey, 0)]
  /\ UNCHANGED <<fileVars, Opened, IsResizing, SignalResize, RWResizeLock, wr,
                 histVars, flushVars>>

\* Range's ReadINodeFromMemMap(rootOffset) and rangeRecursive
RangeRead ==
  /\ pc[Reader] = "rangeRead"
  /\ pc' = [pc EXCEPT ![Reader] = "idle"]
  /\ rd' = [rd EXCEPT !.range = RangeFrom(rootToRead, rd.key, rd.endKey, 0),
                      !.returned = TRUE,
                      !.overtaken = meta.root # rd.rootOffset]
  /\ UNCHANGED <<fileVars, Opened, IsResizing, SignalResize, RWResizeLock, wr,
                 histVars, flushVars>>

\* handleResize receives the signal and resizeMmap asks for the lock
ReceiveSignal ==
  /\ pc[Resizer] = "idle"
  /\ SignalResize
  /\ SignalResize' = FALSE
  /\ RWResizeLock' = [RWResizeLock EXCEPT !.waiting = TRUE]
  /\ pc' = [pc EXCEPT ![Resizer] = "lock"]
  /\ UNCHANGED <<fileVars, Opened, IsResizing, wr, rd, histVars, flushVars>>

\* a variant of the condition below that never waits
canLockAlways == TRUE

\* RWResizeLock.Lock() waits while a read lock is held
canLock == RWResizeLock.readers = {}

\* RWResizeLock.Lock() returns once no read lock is held
AcquireLock ==
  /\ pc[Resizer] = "lock"
  /\ canLock
  /\ RWResizeLock' = [RWResizeLock EXCEPT !.waiting = FALSE, !.writer = TRUE]
  /\ pc' = [pc EXCEPT ![Resizer] = "unmap"]
  /\ UNCHANGED <<fileVars, Opened, IsResizing, SignalResize, wr, rd, histVars, flushVars>>

\* resizeMmap: File.Sync and munmap, if there is a mapping
Unmap ==
  /\ pc[Resizer] = "unmap"
  /\ synced' = IF mapLen > 0 THEN meta ELSE synced
  /\ mapLen' = 0
  /\ pc' = [pc EXCEPT ![Resizer] = "remap"]
  /\ UNCHANGED <<mem, meta, fileSize, Opened, IsResizing, SignalResize, RWResizeLock,
                 wr, rd, histVars, SignalFlush, dropped>>

\* resizeMmap: File.Truncate(allocateSize) and mMap
Remap ==
  /\ pc[Resizer] = "remap"
  /\ fileSize' = allocateSize(fileSize)
  /\ mapLen' = allocateSize(fileSize)
  /\ pc' = [pc EXCEPT ![Resizer] = "clear"]
  /\ UNCHANGED <<mem, meta, Opened, IsResizing, SignalResize, RWResizeLock,
                 wr, rd, histVars, flushVars>>

\* resizeMmap: File.Sync or munmap returns an error and resizeMmap returns it, the
\* mapping being as it was; handleResize does not look at what resizeMmap returns
UnmapFails ==
  /\ pc[Resizer] = "unmap"
  /\ mapLen > 0
  /\ pc' = [pc EXCEPT ![Resizer] = "clear"]
  /\ UNCHANGED <<fileVars, Opened, IsResizing, SignalResize, RWResizeLock, wr, rd,
                 histVars, flushVars>>

\* resizeMmap: File.Truncate returns an error, or mMap does once the file has been
\* extended, and resizeMmap returns it: the old mapping is gone and there is no
\* new one
RemapFails ==
  /\ pc[Resizer] = "remap"
  /\ \E truncated \in BOOLEAN :
        fileSize' = IF truncated THEN allocateSize(fileSize) ELSE fileSize
  /\ pc' = [pc EXCEPT ![Resizer] = "clear"]
  /\ UNCHANGED <<mem, meta, mapLen, Opened, IsResizing, SignalResize, RWResizeLock,
                 wr, rd, histVars, flushVars>>

\* the deferred atomic.StoreUint32(&mmcMap.IsResizing, 0)
ClearIsResizing ==
  /\ pc[Resizer] = "clear"
  /\ IsResizing' = 0
  /\ pc' = [pc EXCEPT ![Resizer] = "unlock"]
  /\ UNCHANGED <<fileVars, Opened, SignalResize, RWResizeLock, wr, rd, histVars, flushVars>>

\* the deferred RWResizeLock.Unlock()
ReleaseLock ==
  /\ pc[Resizer] = "unlock"
  /\ RWResizeLock' = [RWResizeLock EXCEPT !.writer = FALSE]
  /\ pc' = [pc EXCEPT ![Resizer] = "idle"]
  /\ UNCHANGED <<fileVars, Opened, IsResizing, SignalResize, wr, rd, histVars, flushVars>>

\* handleFlush receives a signal from the channel
ReceiveFlush ==
  /\ pc[Flusher] = "idle"
  /\ SignalFlush
  /\ SignalFlush' = FALSE
  /\ pc' = [pc EXCEPT ![Flusher] = "spin"]
  /\ UNCHANGED <<fileVars, Opened, IsResizing, SignalResize, RWResizeLock, wr, rd,
                 histVars, synced, dropped>>

\* handleFlush: File.Sync() under the read lock, whose error is not looked at: it
\* fails on a file that Close has closed; the deferred RUnlock follows
Sync ==
  /\ pc[Flusher] = "sync"
  /\ synced' = IF Opened THEN meta ELSE synced
  /\ RWResizeLock' = RUnlock(Flusher)
  /\ pc' = [pc EXCEPT ![Flusher] = "idle"]
  /\ UNCHANGED <<fileVars, Opened, IsResizing, SignalResize, wr, rd, histVars,
                 SignalFlush, dropped>>

\* the steps of the flush worker
FlusherStep == ReceiveFlush \/ Spin(Flusher) \/ AcquireRLock(Flusher) \/ Sync

Calls(w) ==
  {[kind |-> "put", key |-> k, value |-> WriterValue(w)] : k \in WriterKeys(w)}
    \cup {[kind |-> "delete", key |-> k, value |-> <<>>] : k \in WriterKeys(w)}

NextConc ==
  \/ Open
  \/ \E w \in Writers : \E call \in Calls(w) : StartCall(w, call)
  \/ \E p \in Writers \cup {Reader} : Spin(p)
  \/ \E p \in Writers \cup {Reader} : AcquireRLock(p)
  \/ \E w \in Writers : BuildPath(w)
  \/ \E w \in Writers : LoadVersion(w)
  \/ \E w \in Writers : SerializePath(w)
  \/ \E w \in Writers : SwapVersion(w)
  \/ \E w \in Writers : StoreEndOffset(w)
  \/ \E w \in Writers : WriteNode(w)
  \/ \E w \in Writers : StoreRootOffset(w)
  \/ \E w \in Writers : ReturnTrue(w)
  \/ \E w \in Writers : Retry(w)
  \/ \E key \in ReaderKeys : StartGet(key)
  \/ LoadRootOffset
  \/ ReadPath
  \/ \E bounds \in ReaderRanges : StartRange(bounds[1], bounds[2])
  \/ RangeLoadRootOffset
  \/ RangeRead
  \/ ReceiveSignal
  \/ AcquireLock
  \/ Unmap
  \/ Remap
  \/ ClearIsResizing
  \/ ReleaseLock

SpecConc == Init /\ [][NextConc]_vars

\* the steps of a call of writer w once it is made, and those of the resize worker
WriterStep(w) ==
  \/ Spin(w) \/ AcquireRLock(w) \/ BuildPath(w) \/ LoadVersion(w) \/ SerializePath(w)
  \/ SwapVersion(w) \/ StoreEndOffset(w) \/ WriteNode(w) \/ StoreRootOffset(w)
  \/ ReturnTrue(w) \/ Retry(w)

ResizerStep ==
  ReceiveSignal \/ AcquireLock \/ Unmap \/ Remap \/ ClearIsResizing \/ ReleaseLock

\* the first call of a writer
StartFirstCall(w, call) == wr[w].calls = 0 /\ StartCall(w, call)

\* two writers that make one call each, and the resize worker
NextGrow ==
  \/ Open
  \/ \E w \in Writers : \E call \in Calls(w) : StartFirstCall(w, call)
  \/ \E w \in Writers : WriterStep(w)
  \/ ResizerStep

\* the calls of a writer that fills the file: Put and Delete of the deepest key
ScheduleCalls ==
  {[kind |-> "put", key |-> DeepKey, value |-> v] : v \in Values}
    \cup {[kind |-> "delete", key |-> DeepKey, value |-> <<>>]}

\* Put or Delete is called by that writer
StartScheduleCall(w, call) ==
  /\ Opened
  /\ pc[w] = "idle"
  /\ wr[w].calls < MaxOps
  /\ pc' = [pc EXCEPT ![w] = "spin"]
  /\ wr' = [wr EXCEPT ![w].locals = [NoLocals EXCEPT !.call = call]]
  /\ UNCHANGED <<fileVars, Opened, IsResizing, SignalResize, RWResizeLock, rd, histVars,
                 flushVars>>

\* one writer that makes MaxOps calls over a new file, and the resize worker
NextSchedule ==
  \/ Open
  \/ \E call \in ScheduleCalls : StartScheduleCall("w1", call)
  \/ WriterStep("w1")
  \/ ResizerStep

SpecSchedule == Init /\ [][NextSchedule]_vars

\* every goroutine that can take a step is scheduled in the end; calls need not
\* be made
SpecGrowFair ==
  /\ Init /\ [][NextGrow]_vars
  /\ \A w \in Writers : WF_vars(WriterStep(w))
  /\ WF_vars(ResizerStep)

\* the keys of the calls of a caller that runs beside the flush worker
FlushKeys == {<<1>>, <<2>>}

\* one caller that opens, puts, deletes and closes, and the flush worker; nothing
\* stops the flush worker when the file is closed
NextFlush ==
  \/ Open
  \/ Close
  \/ \E key \in FlushKeys, value \in Values : Put(key, value)
  \/ \E key \in FlushKeys : Delete(key)
  \/ FlusherStep

SpecFlush == Init /\ [][NextFlush]_vars

\* the branch indexes whose bits lie in the first four bytes of a bitmap
FirstBitmapWord == 0..31

\* the first four bytes of the bitmap of the current root are zeroed in the file
\* while it is closed; its child offsets stay
ZeroRootBitmap ==
  /\ ~Opened
  /\ closedView.taken
  /\ mem[meta.root].bitmap \cap FirstBitmapWord # {}
  /\ mem' = [mem EXCEPT ![meta.root].bitmap = @ \ FirstBitmapWord]
  /\ last' = [kind |-> "corrupt", key |-> <<>>, value |-> <<>>]
  /\ UNCHANGED <<meta, mapLen, fileSize, Opened, concVars, kv, closedView, beforeCall,
                 prev, nops, contended, flushVars>>

\* one caller that opens, puts, deletes and closes a file whose bytes are altered
\* while it is closed
NextCorrupt ==
  \/ Open
  \/ Close
  \/ \E key \in FlushKeys \cup {<<1, 2>>}, value \in Values : Put(key, value)
  \/ \E key \in FlushKeys : Delete(key)
  \/ ZeroRootBitmap

SpecCorrupt == Init /\ [][NextCorrupt]_vars

\* the steps of a Get of the reader
GetStep ==
  \/ \E key \in ReaderKeys : StartGet(key)
  \/ Spin(Reader) \/ AcquireRLock(Reader) \/ LoadRootOffset \/ ReadPath

\* two writers that make one call each, the reader's Gets and a resize worker
\* whose system calls may fail
NextFault ==
  \/ NextGrow
  \/ GetStep
  \/ UnmapFails
  \/ RemapFails
  \/ \E w \in Writers : WriteNodeFails(w)

SpecFault == Init /\ [][NextFault]_vars

\* the steps of a resize worker whose system calls may fail
ResizerFaultStep == ResizerStep \/ UnmapFails \/ RemapFails

\* two writers that make one call each and a resize worker whose system calls may
\* fail, every goroutine that can take a step being scheduled in the end
NextGrowFault == NextGrow \/ UnmapFails \/ RemapFails

SpecGrowFaultFair ==
  /\ Init /\ [][NextGrowFault]_vars
  /\ \A w \in Writers : WF_vars(WriterStep(w))
  /\ WF_vars(ResizerFaultStep)

\* two writers that make one call each, the reader's Gets, the resize worker and
\* the flush worker
NextShared ==
  \/ NextGrow
  \/ GetStep
  \/ FlusherStep

SpecShared == Init /\ [][NextShared]_vars

\* ------------------------------------------------------------------ claims

\* Get returns what the history of the calls that returned says about the key
GetMatches(key) ==
  IF kv[key].present
  THEN Get(key).status = "pair" /\ Get(key).key = key /\ Get(key).value = kv[key].value
  ELSE Get(key).status = "none"

IsProperPrefix(a, b) == Len(a) < Len(b) /\ SubSeq(b, 1, Len(a)) = a

\* C1: for every key of any length, the empty key included, Get returns the pair
\* of the last Put of the key as long as no Delete of the key came after it
C1_PutThenGetAnyKey ==
  Opened => \A key \in Keys : kv[key].present => GetMatches(key)

\* C2: for every key, the empty key included, Get returns nothing once Delete of
\* the key has returned and no Put of the key came after it, whether or not
\* extensions of the key are stored
C2_DeleteThenGet ==
  Opened => \A key \in Keys : kv[key].deleted => Get(key).status = "none"

\* a stored key was deleted while an extension of it stays stored
C2_Witness ==
  /\ Opened
  /\ \E key \in NonEmptyKeys, ext \in NonEmptyKeys :
        /\ IsProperPrefix(key, ext)
        /\ kv[key].deleted /\ kv[key].value # <<>>
        /\ kv[ext].present
        /\ last = [kind |-> "delete", key |-> key, value |-> <<>>]

\* C3: in every state of a sequential run Get returns, for every non-empty key,
\* the value of the last Put not followed by a Delete and nothing otherwise; and
\* after a Put or Delete Get returns for every other key what it returned before
C3_SequentialRefinement ==
  Opened =>
    \A key \in NonEmptyKeys :
       /\ GetMatches(key)
       /\ (last.kind \in {"put", "delete"} /\ key # last.key) =>
             /\ Get(key).status = beforeCall[key].status
             /\ Get(key).value = beforeCall[key].value

\* a key and an extension of it are both stored after three calls on the two, the
\* last of them a Put of the shorter key
C3_Witness ==
  /\ Opened
  /\ nops = MaxOps
  /\ \E key \in NonEmptyKeys, ext \in NonEmptyKeys :
        /\ IsProperPrefix(key, ext)
        /\ kv[key].present /\ kv[ext].present
        /\ \A other \in Keys \ {key, ext} : kv[other] = Absent
        /\ last.kind = "put" /\ last.key = key
        /\ Get(key).value = last.value /\ Get(ext).value = kv[ext].value

\* C4: when the writers of a concurrent run, which work on distinct keys, have
\* all returned, Get returns the value of every key that was put and nothing for
\* every key that was deleted
C4_NoLostMutation ==
  (Opened /\ \A w \in Writers : pc[w] = "idle") =>
     \A key \in NonEmptyKeys : GetMatches(key)

\* both writers have returned from all their calls, one of them lost the swap of
\* the version to the other and retried, a key was put and deleted and another put
C4_Witness ==
  /\ Opened
  /\ \A w \in Writers : pc[w] = "idle" /\ wr[w].calls = WriterOps(w)
  /\ contended
  /\ \E key \in WriterKeys("w1") : kv[key].deleted /\ kv[key].value # <<>>
  /\ \E key \in WriterKeys("w2") : kv[key].present

\* C5: a Get of a key that was stored when the Get was called, and that no call
\* running during the Get puts or deletes, returns the pair stored: not nothing,
\* not an error, not another value
C5_StableGet ==
  (rd.returned /\ rd.stable) =>
     /\ rd.result.status = "pair"
     /\ rd.result.key = rd.key
     /\ rd.result.value = rd.expected

\* such a Get returned after reading while a writer was publishing another key
C5_Witness ==
  /\ rd.returned /\ rd.stable /\ rd.overlapped
  /\ rd.result.status = "pair"

\* the node at off and every node reachable from it are completely written
RECURSIVE Written(_)
Written(off) ==
  /\ Readable(off)
  /\ \A i \in 1..Len(mem[off].children) : Written(mem[off].children[i])

\* C6: in every state the root offset of the header, and the root offset a reader
\* has loaded, designate a root that is completely written together with every
\* node reachable from it, and no Get returns an error
C6_RootFullyWritten ==
  Opened =>
     /\ Written(meta.root)
     /\ pc[Reader] = "read" => Written(rd.rootOffset)
     /\ rd.result.status # "error"

\* a writer has written some of the nodes of its path and not the others, while
\* the reader holds a root offset it loaded
C6_Witness ==
  /\ pc[Reader] = "read"
  /\ \E w \in Writers :
        /\ pc[w] = "write"
        /\ Locals(w).endOffset \in DOMAIN mem
        /\ Locals(w).serializedPath # EmptyMem

\* C7 as stated: in every state the root at the root offset of the header is the
\* root of the mutation whose number is the version of the header
C7_RootIsOfVersion ==
  Opened => (Readable(meta.root) /\ mem[meta.root].version = meta.version)

\* C7 as the code has it: the version is swapped first and the root offset is
\* stored last, so the root at the root offset is that of the mutation before the
\* version of the header while a writer is publishing, and that of the version of
\* the header in every other state
C7_VersionFirstRootLast ==
  Opened =>
     /\ Readable(meta.root)
     /\ mem[meta.root].version =
           IF \E w \in Writers : Publishing(w) THEN meta.version - 1 ELSE meta.version

\* a writer has swapped the version and written its nodes, and is about to store
\* the root offset
C7_Witness ==
  \E w \in Writers :
     /\ pc[w] = "storeRoot"
     /\ Locals(w).endOffset \in DOMAIN mem
     /\ meta.version = Locals(w).path.version
     /\ mem[meta.root].version = meta.version - 1

\* C8: right after a file that was closed is opened again, the header is the one
\* Close left and Get returns for every key what it returned before Close
C8_ReopenPreserves ==
  (Opened /\ closedView.taken /\ last.kind = "open") =>
     /\ meta = closedView.meta
     /\ \A key \in Keys : Get(key) = closedView.gets[key]

\* a file holding a stored key and a deleted key was closed and opened again
C8_Witness ==
  /\ Opened /\ closedView.taken /\ last.kind = "open"
  /\ \E key \in NonEmptyKeys : kv[key].present /\ Get(key).value = kv[key].value
  /\ \E key \in NonEmptyKeys : kv[key].deleted /\ kv[key].value # <<>>

\* start <= key < end, bytewise
InRange(key, startKey, endKey) ==
  Compare(startKey, key) <= 0 /\ Compare(key, endKey) = -1

\* C9: for every start <= end, Range(start, end, nil) returns the pair of every
\* stored key k with start <= k < end
C9_RangeComplete ==
  Opened => \A startKey \in NonEmptyKeys, endKey \in NonEmptyKeys :
     Compare(startKey, endKey) <= 0 =>
       \A key \in NonEmptyKeys : (kv[key].present /\ InRange(key, startKey, endKey)) =>
          \E i \in 1..Len(Range(startKey, endKey, 0).pairs) :
             /\ Range(startKey, endKey, 0).pairs[i].key = key
             /\ Range(startKey, endKey, 0).pairs[i].value = kv[key].value

\* C10: for every start <= end, every pair Range(start, end, nil) returns has a
\* non-empty key k that is stored with the value returned and start <= k < end
C10_RangeSound ==
  Opened => \A startKey \in NonEmptyKeys, endKey \in NonEmptyKeys :
     Compare(startKey, endKey) <= 0 =>
       \A i \in 1..Len(Range(startKey, endKey, 0).pairs) :
          LET pair == Range(startKey, endKey, 0).pairs[i]
          IN /\ Len(pair.key) > 0
             /\ kv[pair.key].present /\ kv[pair.key].value = pair.value
             /\ InRange(pair.key, startKey, endKey)

\* the keys of the pairs are in strictly ascending bytewise order
StrictlyAscending(pairs) ==
  \A i \in 1..(Len(pairs) - 1) : Compare(pairs[i].key, pairs[i + 1].key) = -1

\* C11: the pairs a Range call returns are in strictly ascending bytewise order of
\* their keys, so that no key appears twice, whatever Puts came before the call
C11_RangeAscending ==
  \A startKey \in NonEmptyKeys, endKey \in NonEmptyKeys :
    Range(startKey, endKey, 0).status = "ok"
      => StrictlyAscending(Range(startKey, endKey, 0).pairs)

\* the leaf versions of the pairs of a result
VersionsAtLeast(pairs, minVersion) ==
  SelectSeq(pairs, LAMBDA pair : pair.version >= minVersion)

\* C12: Range with a minimum version V returns exactly those pairs of the Range
\* without one whose version is at least V, and without one it is Range with V = 0
C12_VersionFilter ==
  \A startKey \in NonEmptyKeys, endKey \in NonEmptyKeys, minVersion \in 0..MaxOps :
    Range(startKey, endKey, 0).status = "ok"
      => /\ Range(startKey, endKey, minVersion).status = "ok"
         /\ Range(startKey, endKey, minVersion).pairs =
              VersionsAtLeast(Range(startKey, endKey, 0).pairs, minVersion)

\* C13: what a Get or a Range returns while writers run is what the tree at the
\* root offset it loaded held when it loaded it, whatever was published afterwards
C13_OneSnapshot ==
  /\ (rd.kind = "get" /\ rd.returned /\ rd.result.status # "error")
       => rd.result = rd.snapshot
  /\ (rd.kind = "range" /\ rd.returned /\ rd.range.status = "ok")
       => rd.range = rd.snapshot

\* a Range returned its pairs after a writer had published a root newer than the
\* one the Range had loaded
C13_Witness ==
  /\ rd.kind = "range" /\ rd.returned /\ rd.range.status = "ok"
  /\ Len(rd.range.pairs) > 0
  /\ rd.overtaken

\* C14: a Range that runs while the mapping grows returns without an error
C14_RangeSurvivesGrowth ==
  (rd.kind = "range" /\ rd.returned) => rd.range.status = "ok"

\* the writers that have swapped the version and have not returned yet
Swapped == {w \in Writers : Publishing(w) \/ pc[w] = "return"}

KeyValues(result) ==
  [status |-> result.status,
   pairs |-> [i \in 1..Len(result.pairs) |->
                <<result.pairs[i].key, result.pairs[i].value>>]]

\* the last two calls were the same Put
PutTwice == Opened /\ last.kind = "put" /\ prev.call = last

\* C16: a Put of the key and value the call before it has put leaves every Get and
\* every Range with the keys and values they had after the first of the two, the
\* version is 2 above the one before the two calls, and the root offset is larger
\* after each of them
C16_PutIsIdempotent ==
  PutTwice =>
    /\ \A key \in Keys :
         /\ Get(key).status = beforeCall[key].status
         /\ Get(key).key = beforeCall[key].key
         /\ Get(key).value = beforeCall[key].value
    /\ \A startKey \in NonEmptyKeys, endKey \in NonEmptyKeys :
         KeyValues(Range(startKey, endKey, 0)) =
           KeyValues(IF startAfterEnd(startKey, endKey) THEN InvalidRange
                     ELSE RangeFrom(prev.meta.root, startKey, endKey, 0))
    /\ meta.version = prev.before.version + 2
    /\ prev.meta.root > prev.before.root
    /\ meta.root > prev.meta.root

\* the same Put twice after another key was stored; Get and a Range return the pair
C16_Witness ==
  /\ PutTwice
  /\ nops = MaxOps
  /\ Len(last.key) > 0
  /\ Get(last.key).status = "pair"
  /\ \E startKey \in NonEmptyKeys, endKey \in NonEmptyKeys :
       /\ Range(startKey, endKey, 0).status = "ok"
       /\ Len(Range(startKey, endKey, 0).pairs) > 1

\* the last call was a Delete of a key that Get did not find before it
AbsentDelete == Opened /\ last.kind = "delete" /\ beforeCall[last.key].status = "none"

\* C17 as stated: a Delete of a key that is not stored returns false and leaves
\* version, root offset and end offset of the header as they were
C17_AbsentDeletePublishesNothing ==
  AbsentDelete => (~prev.returned /\ meta = prev.meta)

\* C17: a Delete of a key that is not stored returns true and publishes a copy of
\* the path it walked: the version goes up by one, the root offset becomes the end
\* offset the call found, the end offset grows, and every Get and every Range
\* returns what it returned before the call
C17_AbsentDeleteRepublishes ==
  AbsentDelete =>
    /\ prev.returned
    /\ meta.version = prev.meta.version + 1
    /\ meta.root = prev.meta.end
    /\ meta.end > prev.meta.end
    /\ \A key \in Keys : Get(key) = beforeCall[key]
    /\ \A startKey \in NonEmptyKeys, endKey \in NonEmptyKeys :
         Range(startKey, endKey, 0) =
           (IF startAfterEnd(startKey, endKey) THEN InvalidRange
            ELSE RangeFrom(prev.meta.root, startKey, endKey, 0))

\* a Delete of a key that is not stored, under a node that holds another key
C17_Witness ==
  /\ AbsentDelete
  /\ Len(last.key) > 1
  /\ \E key \in NonEmptyKeys : IsProperPrefix(key, last.key) /\ Get(key).status = "pair"

RECURSIVE SumCalls(_)
SumCalls(ws) ==
  IF ws = {} THEN 0
  ELSE LET w == CHOOSE x \in ws : TRUE IN wr[w].calls + SumCalls(ws \ {w})

\* C19: a Put or Delete that loses the swap of the version, sees a version that is
\* not its own minus one, or meets a growth does not return: every call that has
\* returned has returned true, none has returned false or an error
C19_NoFalseReturn ==
  /\ \A w \in Writers :
       /\ wr[w].outcome \in {"none", "true"}
       /\ wr[w].calls > 0 => wr[w].outcome = "true"
       /\ pc[w] = "retry" => wr[w].calls < WriterOps(w)
  /\ nops = SumCalls(Writers)

\* all calls have returned true, after a swap was lost and the mapping had grown
C19_Witness ==
  /\ \A w \in Writers :
       pc[w] = "idle" /\ wr[w].calls = WriterOps(w) /\ wr[w].outcome = "true"
  /\ contended
  /\ fileSize > InitMapSize

\* C20: Range answers with the error for the bounds, and with no pairs, exactly
\* when the start key is bytewise larger than the end key, whatever the minimum
\* version and whatever is stored
C20_StartAfterEndIsInvalid ==
  \A startKey \in Keys, endKey \in Keys, minVersion \in {0, MaxOps} :
    LET result == Range(startKey, endKey, minVersion)
    IN IF Compare(startKey, endKey) = 1
       THEN result.status = "invalid" /\ result.pairs = <<>>
       ELSE result.status # "invalid"

\* keys are stored on both sides of bounds that are in the wrong order, which get
\* the error, while the same bounds in the right order and equal bounds do not
C20_Witness ==
  /\ Opened
  /\ \E startKey \in NonEmptyKeys, endKey \in NonEmptyKeys :
       /\ Get(startKey).status = "pair"
       /\ Get(endKey).status = "pair"
       /\ Range(startKey, endKey, 0).status = "invalid"
       /\ Range(endKey, startKey, 0).status = "ok"
       /\ Range(startKey, startKey, 0).status = "ok"

FirstOpen == last.kind = "open" /\ ~closedView.taken

C25_OpenEmptyFile ==
  FirstOpen =>
    /\ meta.version = 0
    /\ meta.root = 24
    /\ meta.end = 24 + INodeSize(resetINode) + LNodeSize(resetLNode)
    /\ Readable(24)
    /\ ReadINodeFromMemMap(24).bitmap = {}
    /\ ReadINodeFromMemMap(24).children = <<>>
    /\ ReadINodeFromMemMap(24).leaf.key = <<>>
    /\ \A o \in DOMAIN mem : o < meta.end
    /\ \A k \in Keys : Get(k) = NoPair

C25_Witness == FirstOpen /\ Opened /\ mapLen = InitMapSize /\ Get(<<1>>) = NoPair

\* the header or the nodes change in this step
Stores == meta' # meta \/ mem' # mem

\* C26: at most one Put or Delete is publishing at any time: from a writer's swap
\* of the version to its store of the root offset no other writer's swap succeeds,
\* and every store to the header or to the nodes is a step of that writer
C26_OnePublisher ==
  /\ [](Cardinality({w \in Writers : Publishing(w)}) <= 1)
  /\ [][\A w \in Writers :
          (Publishing(w) /\ Stores) => (pc'[w] # pc[w] \/ wr'[w] # wr[w])]_vars

\* a writer is publishing while the other is about to swap the version it loaded
\* before, which the header no longer has
C26_Witness ==
  \E w \in Writers, v \in Writers :
     /\ w # v
     /\ Publishing(w)
     /\ pc[v] = "cas"
     /\ Locals(v).version = meta.version - 1

\* the number of bytes the node written at offset o takes
Extent(o) ==
  IF mem[o].kind = "I"
  THEN NodeChildrenIdx + NodeChildPtrSize * calculateHammingWeight(mem[o].bitmap)
  ELSE NodeKeyIdx + Len(mem[o].key) + Len(mem[o].value)

\* C28: append discipline: no node is modified once written, the nodes never
\* overlap, and a writer writes only at offsets from the end offset it read on
C28_AppendDiscipline ==
  /\ [](\A o \in DOMAIN mem, q \in DOMAIN mem : o < q => o + Extent(o) <= q)
  /\ [][\A o \in DOMAIN mem : o \in DOMAIN mem' /\ mem'[o] = mem[o]]_vars
  /\ [][\A w \in Writers :
          (pc[w] = "write" /\ mem' # mem) =>
             \A o \in DOMAIN mem' \ DOMAIN mem : o >= Locals(w).endOffset]_vars

\* a writer is writing its nodes after the end of those of an earlier mutation
\* while the reader holds the root offset it loaded before
C28_Witness ==
  /\ pc[Reader] = "read"
  /\ \E w \in Writers :
        /\ pc[w] = "write"
        /\ Locals(w).endOffset > rd.rootOffset
        /\ Locals(w).endOffset \in DOMAIN mem
        /\ meta.version >= 2

\* C29 as stated: in every state of an open store the root offset is below the
\* end offset and the end offset is no more than the length of the mapping
C29_HeaderWithinMappingAlways ==
  Opened => (meta.root < meta.end /\ meta.end <= mapLen)

\* C29 as the code has it: in every state in which the file is mapped, those
\* between the stores of a publication and right after a growth included, the
\* root offset is below the end offset and the end offset is no more than the
\* length of the mapping; between the resize worker's munmap and mmap there is
\* no mapping and its length is 0
C29_HeaderWithinMapping ==
  (Opened /\ mapLen > 0) => (meta.root < meta.end /\ meta.end <= mapLen)

\* after a growth a writer has stored its end offset, which passes the length of
\* the first mapping, and not yet its root offset
C29_Witness ==
  \E w \in Writers :
     /\ pc[w] \in {"write", "storeRoot"}
     /\ mapLen = allocateSize(InitMapSize)
     /\ meta.end = Locals(w).nextStartOffset
     /\ meta.end > InitMapSize
     /\ meta.root < Locals(w).endOffset

\* C30: within a publication the version is swapped first, then the end offset
\* is stored, then the nodes are written, then the root offset is stored, then
\* the flush worker is signalled: at every step the earlier ones are done and the
\* later ones are not, and the nodes are all written before the root offset is
\* stored
C30_PublicationOrder ==
  /\ [](\A w \in Writers :
          /\ Publishing(w) => meta.version = Locals(w).path.version
          /\ pc[w] = "storeEnd" =>
                /\ meta.end = Locals(w).endOffset
                /\ Locals(w).endOffset \notin DOMAIN mem
                /\ meta.root # Locals(w).endOffset
          /\ pc[w] = "write" =>
                /\ meta.end = Locals(w).nextStartOffset
                /\ Locals(w).serializedPath # EmptyMem
                /\ meta.root # Locals(w).endOffset
          /\ pc[w] = "storeRoot" =>
                /\ meta.end = Locals(w).nextStartOffset
                /\ Locals(w).serializedPath = EmptyMem
                /\ Written(Locals(w).endOffset)
                /\ meta.root # Locals(w).endOffset
          /\ pc[w] = "return" =>
                /\ Written(Locals(w).endOffset)
                /\ meta.root >= Locals(w).endOffset)
  /\ [][(SignalFlush' # SignalFlush \/ dropped' # dropped) =>
          \E w \in Writers :
             /\ pc[w] = "return" /\ pc'[w] = "idle"
             /\ meta.root >= Locals(w).endOffset
             /\ Written(Locals(w).endOffset)]_vars

\* a second publication has stored its root offset and signalled the flush
\* worker, while the other writer is writing the nodes of a third
C30_Witness ==
  /\ SignalFlush
  /\ dropped = 2
  /\ Written(meta.root)
  /\ \E w \in Writers, v \in Writers :
        /\ wr[w].outcome = "true" /\ pc[w] = "idle"
        /\ pc[v] = "write" /\ meta.version = 3

\* the next step of goroutine p reads or writes the mapping or the header in it
Accesses(p) ==
  IF p \in Writers
  THEN pc[p] \in {"build", "load", "serialize", "cas", "storeEnd", "write", "storeRoot"}
  ELSE IF p = Reader THEN pc[p] \in {"loadRoot", "read"}
  ELSE pc[p] = "sync"

\* C27: the resize worker holds the lock exclusively from before its flush and
\* munmap until after its mmap; every step of Get, Put, Delete and the flush worker
\* that accesses the mapping or the header holds the read lock, so none of them
\* happens while nothing is mapped
C27_NoAccessWhileRemapping ==
  Opened =>
     /\ \A p \in Writers \cup {Reader, Flusher} :
           Accesses(p) => (p \in RWResizeLock.readers /\ mapLen > 0)
     /\ RWResizeLock.writer => RWResizeLock.readers = {}
     /\ pc[Resizer] \in {"unmap", "remap", "clear", "unlock"} => RWResizeLock.writer
     /\ mapLen = 0 => pc[Resizer] = "remap"

\* the resize worker has unmapped the file and not mapped it again, while a
\* writer, the reader and the flush worker each wait for the flag or the lock
C27_Witness ==
  /\ pc[Resizer] = "remap"
  /\ mapLen = 0
  /\ pc[Reader] \in {"spin", "rlock"}
  /\ pc[Flusher] \in {"spin", "rlock"}
  /\ \E w \in Writers : pc[w] \in {"spin", "rlock"}

\* Close has returned and the file has not been opened again
Closed == closedView.taken /\ ~Opened

\* C23: Close stops the workers, flushes, unmaps and closes the file in that
\* order: once it has returned the flush worker is at rest and every publication
\* made before it is on disk
C23_CloseFlushesAndStops ==
  Closed => (synced = meta /\ pc[Flusher] = "idle")

\* C24: a publication whose signal to the flush worker was dropped is covered by
\* a later flush, that of the flush worker or the last one of Close: when Close
\* has returned a flush has started after the root offset of every such
\* publication was stored
C24_DroppedSignalCovered ==
  Closed => synced.version >= dropped

\* C21: a growth that fails leaves the store usable at the size it had: whenever
\* the resize worker is not between its munmap and its mmap, the file is mapped
\* at no less than its first length and Get returns the pair of every key stored
C21_FailedGrowthLeavesStoreUsable ==
  (Opened /\ pc[Resizer] # "remap") =>
     /\ mapLen >= InitMapSize
     /\ \A key \in NonEmptyKeys : kv[key].present => Get(key).status = "pair"

\* the bitmap of the node at off does not have one bit per child offset
Mismatch(off) == calculateHammingWeight(mem[off].bitmap) # Len(mem[off].children)

\* C22: once the bitmap of a published node no longer matches its child slots,
\* here that of the root, Get of every key routed through the node returns an
\* error, never nothing and never the pair of another key
C22_AlteredBitmapIsCorrupt ==
  (Opened /\ Mismatch(meta.root)) =>
     \A key \in NonEmptyKeys : Get(key).status = "error"

\* the resize worker has received a request and has not yet cleared IsResizing
Serving == pc[Resizer] \in {"lock", "unmap", "remap", "clear"}

C32_ReturnReleasesReadLock ==
  \A p \in Writers \cup {Reader} : pc[p] = "idle" => p \notin RWResizeLock.readers

\* C33: a Put or Delete whose write of the path fails after the swap of the
\* version returns the error and leaves version, root offset and end offset of
\* the header as they were before the attempt
C33_FailedWriteRestoresHeader ==
  [][\A w \in Writers :
       (pc[w] = "write" /\ pc'[w] = "idle") =>
          /\ wr'[w].outcome = "error"
          /\ meta'.version = Locals(w).version
          /\ meta'.root = Locals(w).prevRootOffset
          /\ meta'.end = Locals(w).endOffset]_vars

\* the length the specification's schedule gives after a mapping of length len:
\* the first length for a new file, twice len below MaxResize, then len + MaxResize
ScheduledAfter(len) ==
  IF len = 0 THEN InitMapSize
  ELSE IF len < MaxResize THEN 2 * len
  ELSE len + MaxResize

RECURSIVE AttachedBelow(_, _, _)
AttachedBelow(off, key, level) ==
  IF off \notin DOMAIN mem THEN {}
  ELSE IF Len(key) = level
  THEN IF mem[off].leaf \in DOMAIN mem THEN {mem[mem[off].leaf]} ELSE {}
  ELSE LET index == key[level + 1]
           before == Cardinality({i \in mem[off].bitmap : i < index})
       IN IF index \notin mem[off].bitmap \/ before >= Len(mem[off].children) THEN {}
          ELSE AttachedBelow(mem[off].children[before + 1], key, level + 1)

AttachedAt(key) == AttachedBelow(meta.root, key, 0)

\* C35: Get(k) returns no pair whenever the leaf attached at depth Len(k) on the
\* path of k has an empty key, and a pair it returns is that leaf and has key k
C35_GetMatchesAttachedLeaf ==
  (Opened /\ mapLen > 0) =>
    \A k \in Keys :
      /\ \A leaf \in AttachedAt(k) : leaf.key = <<>> => Get(k) = NoPair
      /\ Get(k).status # "error"
      /\ Get(k).status = "pair" =>
            /\ Get(k).key = k
            /\ \E leaf \in AttachedAt(k) :
                  leaf.key = k /\ leaf.value = Get(k).value
                    /\ leaf.version = Get(k).version

\* Delete has left a leaf with an empty key where its key was attached, and the
\* store holds another key that Get returns
C35_Witness ==
  /\ Opened
  /\ mapLen > 0
  /\ last.kind = "delete"
  /\ last.key # <<>>
  /\ \E leaf \in AttachedAt(last.key) : leaf.key = <<>>
  /\ Get(last.key) = NoPair
  /\ \E k \in Keys : Get(k).status = "pair" /\ Get(k).key = k

\* the offsets of the internal nodes below the one at offset off, itself excluded
RECURSIVE NodesBelow(_)
NodesBelow(off) ==
  IF off \notin DOMAIN mem THEN {}
  ELSE LET children == {mem[off].children[i] : i \in 1..Len(mem[off].children)}
       IN children \cup UNION {NodesBelow(child) : child \in children}

\* the internal node at offset off has no child and no key attached
EmptyINode(off) ==
  /\ off \in DOMAIN mem
  /\ mem[off].bitmap = {}
  /\ mem[off].children = <<>>
  /\ mem[off].leaf \in DOMAIN mem => mem[mem[off].leaf].key = <<>>

\* C36: Delete unlinks every node of the path that has become empty, at every
\* level, so no internal node below the published root is empty
C36_NoEmptyNodeBelowRoot ==
  (Opened /\ mapLen > 0) => \A off \in NodesBelow(meta.root) : ~EmptyINode(off)

\* C37: a Put or Delete of another key leaves the version Get reports for a
\* stored key as it was before the call
C37_OtherKeysKeepVersion ==
  (Opened /\ mapLen > 0 /\ last.kind \in {"put", "delete"}) =>
    \A k \in Keys :
      (k # last.key /\ beforeCall[k].status = "pair") =>
         /\ Get(k).status = "pair"
         /\ Get(k).version = beforeCall[k].version

\* the internal node at offset off, reached by the branches in prefix, and every
\* node below it: as many children as bits set, and the child at the position
\* given by the number of lower bits set is the node of that branch, any key
\* attached to a node being the branches that lead to it
RECURSIVE WellIndexed(_, _)
WellIndexed(off, prefix) ==
  /\ off \in DOMAIN mem
  /\ Len(mem[off].children) = Cardinality(mem[off].bitmap)
  /\ mem[off].leaf \in DOMAIN mem
  /\ mem[mem[off].leaf].key \in {<<>>, prefix}
  /\ \A idx \in mem[off].bitmap :
        LET position == Cardinality({i \in mem[off].bitmap : i < idx})
        IN /\ position + 1 <= Len(mem[off].children)
           /\ WellIndexed(mem[off].children[position + 1], Append(prefix, idx))

\* C38: in every published internal node the number of children is the number of
\* bits set, the children are in ascending order of branch index, and the child
\* of a set branch index is at the position given by the bits set below it
C38_ChildrenFollowBitmap ==
  (Opened /\ mapLen > 0) => WellIndexed(meta.root, <<>>)

\* a Delete has been published and a published node has two children
C38_Witness ==
  /\ Opened
  /\ mapLen > 0
  /\ last.kind = "delete"
  /\ \E off \in NodesBelow(meta.root) \cup {meta.root} :
        Cardinality(mem[off].bitmap) = 2 /\ Len(mem[off].children) = 2
  /\ \E off \in NodesBelow(meta.root) :
        mem[off].bitmap = {} /\ mem[mem[off].leaf].key # <<>>

\* the offsets of the internal nodes on the path of key from the node at off
RECURSIVE PathOffsets(_, _, _)
PathOffsets(off, key, level) ==
  IF off \notin DOMAIN mem THEN {}
  ELSE IF Len(key) = level THEN {off}
  ELSE LET index == key[level + 1]
           before == Cardinality({i \in mem[off].bitmap : i < index})
       IN IF index \notin mem[off].bitmap \/ before >= Len(mem[off].children) THEN {off}
          ELSE {off} \cup PathOffsets(mem[off].children[before + 1], key, level + 1)

\* the nodes the last call has written: those from the end offset it found on
WrittenByLast == {off \in DOMAIN mem : off >= prev.meta.end}

\* the internal nodes of the published path of the key of the last call
LastPath == PathOffsets(meta.root, last.key, 0)

\* C39: a mutation of key k writes only the nodes on the path of k and their
\* leaves; a child that is not on the path is written as the offset it had, all
\* the nodes below it are nodes written before, and no node written before is
\* changed
C39_OnlyThePathIsWritten ==
  /\ []((Opened /\ mapLen > 0 /\ last.kind \in {"put", "delete"}) =>
         /\ meta.root = prev.meta.end
         /\ \A off \in WrittenByLast :
               \/ off \in LastPath
               \/ \E node \in LastPath : mem[node].leaf = off
         /\ \A node \in LastPath :
               /\ node \in WrittenByLast
               /\ \A i \in 1..Len(mem[node].children) :
                     mem[node].children[i] \notin LastPath =>
                        /\ mem[node].children[i] \in DOMAIN mem \ WrittenByLast
                        /\ NodesBelow(mem[node].children[i]) \subseteq DOMAIN mem \ WrittenByLast)
  /\ [][\A off \in DOMAIN mem : off \in DOMAIN mem' /\ mem'[off] = mem[off]]_vars

\* the last call has copied a path next to a child that is not on it and that has
\* a child of its own
C39_Witness ==
  /\ Opened
  /\ mapLen > 0
  /\ last.kind \in {"put", "delete"}
  /\ \E node \in LastPath : \E i \in 1..Len(mem[node].children) :
        /\ mem[node].children[i] \notin LastPath
        /\ mem[node].children[i] < prev.meta.end
        /\ NodesBelow(mem[node].children[i]) # {}

\* C40: for every start <= end, in every trie reachable by Puts and Deletes,
\* Range returns pairs or an error: it does not index outside the children of a
\* node
C40_RangeStaysWithinChildren ==
  (Opened /\ mapLen > 0) =>
    \A startKey \in NonEmptyKeys : \A endKey \in NonEmptyKeys :
      Compare(startKey, endKey) <= 0 =>
        Range(startKey, endKey, 0).status \in {"ok", "error"}

====
